---------------------------- MODULE Spec2Model ----------------------------
(***************************************************************************)
(* Model of global_scripts/build_repo_prompt.py: the interactive directory *)
(* walk (process_directory) and the XML bundler (generate_xml).            *)
(*                                                                         *)
(* Strings are sequences of one-character strings, so that prefix, suffix, *)
(* ordering, joining and escaping are computed character by character.     *)
(* The file system is revealed lazily: the result of directory.iterdir()   *)
(* is chosen when process_directory lists the directory.  In a             *)
(* tree-structured file system every directory is listed at most once, so  *)
(* this is the same as fixing the tree before the run.                     *)
(* prompt_choice returns only valid answers; an invalid answer re-issues   *)
(* the same question and changes no state, so it is not a step here.       *)
(* token_count comes from an external tokenizer and is read by no          *)
(* operation of the walk or of generate_xml; the records omit it.          *)
(* Paths are POSIX paths: os.sep is "/".                                   *)
(***************************************************************************)
EXTENDS Integers, Sequences, FiniteSets, TLC

(* ------------------------------ bounds -------------------------------- *)

\* Largest number of directory entries in the whole tree.
MaxNodes == 3
\* Largest number of chunks a generated content string is made of.
MaxChunks == 3
\* Largest number of file records handed to generate_xml directly.
MaxXmlFiles == 2

(* ------------------------------ strings ------------------------------- *)

startswith(s, pre) ==
    /\ Len(s) >= Len(pre)
    /\ SubSeq(s, 1, Len(pre)) = pre

endswith(s, suf) ==
    /\ Len(s) >= Len(suf)
    /\ SubSeq(s, Len(s) - Len(suf) + 1, Len(s)) = suf

\* Code points of the characters that occur in entry names.
Ord ==
    ("-" :> 45) @@ ("." :> 46) @@ ("/" :> 47) @@ ("D" :> 68) @@ ("G" :> 71)
    @@ ("N" :> 78) @@ ("P" :> 80) @@ ("S" :> 83) @@ ("_" :> 95) @@ ("a" :> 97)
    @@ ("b" :> 98) @@ ("c" :> 99) @@ ("d" :> 100) @@ ("e" :> 101)
    @@ ("g" :> 103) @@ ("h" :> 104) @@ ("i" :> 105) @@ ("l" :> 108)
    @@ ("m" :> 109) @@ ("n" :> 110) @@ ("o" :> 111) @@ ("p" :> 112)
    @@ ("r" :> 114) @@ ("s" :> 115) @@ ("t" :> 116) @@ ("u" :> 117)
    @@ ("v" :> 118) @@ ("x" :> 120) @@ ("y" :> 121)

\* Python's str "<": lexicographic by code point, a proper prefix is smaller.
StrLess(a, b) ==
    \E i \in 1..(Len(a) + 1) :
        /\ i <= Len(b)
        /\ \A j \in 1..(i - 1) : a[j] = b[j]
        /\ (i = Len(a) + 1 \/ Ord[a[i]] < Ord[b[i]])

\* str.lower() on the characters that occur in entry names.
lower(s) ==
    [i \in 1..Len(s) |->
        CASE s[i] = "D" -> "d" [] s[i] = "G" -> "g" [] s[i] = "N" -> "n"
          [] s[i] = "P" -> "p" [] s[i] = "S" -> "s" [] OTHER -> s[i]]

\* pathlib's PurePath.suffix: from the last dot of the name on, unless that
\* dot is the first or the last character.
suffix(name) ==
    LET dots == {i \in 1..Len(name) : name[i] = "."}
        i == IF dots = {} THEN 0 ELSE CHOOSE d \in dots : \A o \in dots : o <= d
    IN  IF 1 < i /\ i < Len(name) THEN SubSeq(name, i, Len(name)) ELSE <<>>

\* str.replace(old, new): every non-overlapping occurrence, left to right.
RECURSIVE replace(_, _, _)
replace(s, old, new) ==
    IF Len(s) < Len(old) \/ s = <<>> THEN s
    ELSE IF SubSeq(s, 1, Len(old)) = old
         THEN new \o replace(SubSeq(s, Len(old) + 1, Len(s)), old, new)
         ELSE <<Head(s)>> \o replace(Tail(s), old, new)

\* sep.join(parts)
RECURSIVE join(_, _)
join(sep, parts) ==
    IF parts = <<>> THEN <<>>
    ELSE IF Len(parts) = 1 THEN parts[1]
    ELSE parts[1] \o sep \o join(sep, Tail(parts))

(* --------------------------- configuration ---------------------------- *)

IGNORE_DIRS ==
    { <<".", "g", "i", "t">>,
      <<"_", "_", "p", "y", "c", "a", "c", "h", "e", "_", "_">>,
      <<".", "v", "s", "c", "o", "d", "e">> }

IGNORE_FILES_SUFFIX == { <<".", "p", "y", "c">> }

IGNORE_FILES_NAMES ==
    { <<"r", "e", "p", "o", "-", "c", "o", "n", "t", "e", "n", "t", "s", ".", "x", "m", "l">>,
      <<".", "D", "S", "_", "S", "t", "o", "r", "e">> }

BINARY_FILE_EXTENSIONS ==
    { <<".", "j", "p", "g">>, <<".", "j", "p", "e", "g">>, <<".", "p", "n", "g">>,
      <<".", "g", "i", "f">>, <<".", "p", "d", "f">>, <<".", "z", "i", "p">>,
      <<".", "t", "a", "r">>, <<".", "g", "z">> }

(* ----------------------------- file system ---------------------------- *)

\* A directory entry.  type: "dir", "file" or "other" (neither is_dir() nor
\* is_file(): a socket, a dangling link).  kind says how reading a file goes:
\*   "text"       stat, the binary probe and the utf-8 read succeed
\*   "nul"        the binary probe finds a null byte or cannot read the file
\*   "nonutf8"    the utf-8 read raises UnicodeDecodeError
\*   "unreadable" stat or open raises another exception
Entry(name, type, kind, content) ==
    [name |-> name, type |-> type, kind |-> kind, content |-> content]

\* The entries a directory of the model may hold.
Catalogue ==
    { Entry(<<"a">>, "file", "text", <<"x", "<">>),
      Entry(<<"b">>, "file", "text", <<>>),
      Entry(<<"c", ".", "P", "N", "G">>, "file", "text", <<"x">>),
      Entry(<<"n">>, "file", "nul", <<>>),
      Entry(<<"u">>, "file", "nonutf8", <<>>),
      Entry(<<"x">>, "file", "unreadable", <<>>),
      Entry(<<"a", ".", "p", "y", "c">>, "file", "text", <<"x">>),
      Entry(<<".", "n", "i", "t">>, "file", "text", <<"x">>),
      Entry(<<"r", "e", "p", "o", "-", "c", "o", "n", "t", "e", "n", "t", "s", ".", "x", "m", "l">>,
            "file", "text", <<"x">>),
      Entry(<<"d">>, "dir", "text", <<>>),
      Entry(<<"e">>, "dir", "text", <<>>),
      Entry(<<".", "g", "i", "t">>, "dir", "text", <<>>),
      Entry(<<"_", "_", "p", "y", "c", "a", "c", "h", "e", "_", "_">>, "dir", "text", <<>>),
      Entry(<<"s">>, "other", "text", <<>>) }

\* The subsets of S of at most k elements.
RECURSIVE SubsetsUpTo(_, _)
SubsetsUpTo(S, k) ==
    IF k = 0 \/ S = {} THEN {{}}
    ELSE LET x == CHOOSE y \in S : TRUE
         IN  SubsetsUpTo(S \ {x}, k)
             \cup {T \cup {x} : T \in SubsetsUpTo(S \ {x}, k - 1)}

\* The listings directory.iterdir() may return when the tree may still hold
\* k entries: names are unique in a directory.
Listings(k) ==
    { S \in SubsetsUpTo(Catalogue, k) : \A p, q \in S : p.name = q.name => p = q }

\* Listings(0), ..., Listings(k), computed once.
RECURSIVE ListingsTable(_)
ListingsTable(k) ==
    IF k < 0 THEN <<>> ELSE Append(ListingsTable(k - 1), Listings(k))

ListingsUpTo == ListingsTable(MaxNodes)

is_dir(p) == p.type = "dir"

is_file(p) == p.type = "file"


(* ------------------------ process_directory --------------------------- *)

\* Line 86: the filter applied to iterdir() before sorting.
Listed(p) ==
    ~((is_dir(p) /\ p.name \in IGNORE_DIRS) \/ startswith(p.name, <<".">>))

\* sorted with the comparison inverted: descending by name.
RECURSIVE sortedReverse(_)
sortedReverse(S) ==
    IF S = {} THEN <<>>
    ELSE LET m == CHOOSE x \in S : \A y \in S \ {x} : StrLess(y.name, x.name)
         IN  <<m>> \o sortedReverse(S \ {m})

\* sorted(...): ascending by name (the entries of one directory share the
\* parent, so comparing the paths is comparing the names).
RECURSIVE sorted(_)
sorted(S) ==
    IF S = {} THEN <<>>
    ELSE LET m == CHOOSE x \in S : \A y \in S \ {x} : StrLess(x.name, y.name)
         IN  <<m>> \o sorted(S \ {m})

\* Lines 95-98: the entries appended to dirs.
KeepDir(entry) ==
    /\ is_dir(entry)
    /\ ~(entry.name \in IGNORE_DIRS \/ startswith(entry.name, <<".">>))

\* KeepFile without the suffix rule.
KeepFileNoSuffix(entry) ==
    /\ ~is_dir(entry)
    /\ is_file(entry)
    /\ ~(\/ entry.name \in IGNORE_FILES_NAMES
         \/ startswith(entry.name, <<".">>))

\* KeepFile without the exact-name rule.
KeepFileNoNames(entry) ==
    /\ ~is_dir(entry)
    /\ is_file(entry)
    /\ ~(\/ \E suf \in IGNORE_FILES_SUFFIX : endswith(entry.name, suf)
         \/ startswith(entry.name, <<".">>))

\* Lines 99-106: the entries appended to files.
KeepFile(entry) ==
    /\ ~is_dir(entry)
    /\ is_file(entry)
    /\ ~(\/ entry.name \in IGNORE_FILES_NAMES
         \/ \E suf \in IGNORE_FILES_SUFFIX : endswith(entry.name, suf)
         \/ startswith(entry.name, <<".">>))

\* is_probably_binary: by extension, else by probing the first 1024 bytes.
is_probably_binary(entry) ==
    \/ lower(suffix(entry.name)) \in BINARY_FILE_EXTENSIONS
    \/ entry.kind = "nul"

\* ReadOk without the binary probe.
ReadOkNoProbe(entry) ==
    /\ entry.kind # "unreadable"
    /\ entry.kind # "nonutf8"

\* Lines 115-135, one file: TRUE when the file reaches file_info_list.
ReadOk(entry) ==
    /\ entry.kind # "unreadable"
    /\ ~is_probably_binary(entry)
    /\ entry.kind # "nonutf8"

FileInfo(entry) ==
    [name |-> entry.name, content |-> entry.content,
     char_count |-> Len(entry.content)]

\* Lines 112-135: file_info_list, in the order of files.
RECURSIVE BuildFileInfoList(_)
BuildFileInfoList(files) ==
    IF files = <<>> THEN <<>>
    ELSE (IF ReadOk(Head(files)) THEN <<FileInfo(Head(files))>> ELSE <<>>)
         \o BuildFileInfoList(Tail(files))

\* relative_path / name: Path("") / name is Path(name).
new_rel_path(relative_path, name) == Append(relative_path, name)

\* str(file_rel_path).replace(os.sep, "/")
PathStr(parts) == replace(join(<<"/">>, parts), <<"/">>, <<"/">>)

\* IncludedRecord with the file name alone as the path.
IncludedRecordNameOnly(relative_path, info) ==
    [path |-> PathStr(<<info.name>>),
     content |-> info.content,
     char_count |-> info.char_count]

\* Lines 144-152 and 162-170: the record appended for one file.
IncludedRecord(relative_path, info) ==
    [path |-> PathStr(new_rel_path(relative_path, info.name)),
     content |-> info.content,
     char_count |-> info.char_count]

\* SkipEmpty that skips nothing.
SkipEmptyNever(info) == FALSE

\* Lines 142-143 and 160-161: an empty file is skipped.
SkipEmpty(info) == info.char_count = 0

\* Lines 140-152: the records appended when the level answer is "y".
RECURSIVE IncludeAll(_, _)
IncludeAll(relative_path, infos) ==
    IF infos = <<>> THEN <<>>
    ELSE (IF SkipEmpty(Head(infos)) THEN <<>>
          ELSE <<IncludedRecord(relative_path, Head(infos))>>)
         \o IncludeAll(relative_path, Tail(infos))

(* ------------------------------- state -------------------------------- *)

VARIABLES
    stack,           \* the active calls of process_directory, innermost last
    included_files,  \* the list shared by all calls
    fs,              \* the listings revealed so far, by directory
    budget,          \* directory entries the tree may still hold
    log,             \* every listing, prompt answer and appended record
    phase,           \* "walk", "returned" (main holds the list), "done"
    repo_name,       \* Path.cwd().name, read by generate_xml
    xml_content      \* the text generate_xml returned

vars == <<stack, included_files, fs, budget, log, phase, repo_name, xml_content>>

Frame(relative_path) ==
    [relative_path |-> relative_path, files |-> <<>>, dirs |-> <<>>,
     file_info_list |-> <<>>, pc |-> "list", i |-> 1]

Event(ev, dir, name, ans) == [ev |-> ev, dir |-> dir, name |-> name, ans |-> ans]

Top == stack[Len(stack)]

SetTop(f) == [stack EXCEPT ![Len(stack)] = f]

\* Line 174: where a call goes once its files are settled.
AfterFiles(f) ==
    IF f.dirs # <<>> THEN [f EXCEPT !.pc = "dir_choice", !.i = 1]
    ELSE [f EXCEPT !.pc = "return"]

\* Line 109: where a call goes once the directory is listed.
AfterList(f) ==
    IF f.files # <<>> THEN [f EXCEPT !.pc = "file_choice", !.i = 1]
    ELSE AfterFiles(f)

\* The for loops of lines 154, 183 and 187: position i of a list of length n.
LoopOrElse(f, n, done) == IF f.i <= n THEN f ELSE done

NoFs == [d \in {} |-> {}]

Init ==
    /\ stack = <<Frame(<<>>)>>
    /\ included_files = <<>>
    /\ fs = NoFs
    /\ budget = MaxNodes
    /\ log = <<>>
    /\ phase = "walk"
    /\ repo_name = <<>>
    /\ xml_content = <<>>

Walking == phase = "walk" /\ stack # <<>>

\* Lines 84-135 when iterdir() succeeds: list, filter, sort, partition, read.
ListDir ==
    /\ Walking
    /\ Top.pc = "list"
    /\ \E listing \in ListingsUpTo[budget + 1] :
        /\ LET entries == sorted({p \in listing : Listed(p)})
               files == SelectSeq(entries, KeepFile)
               dirs == SelectSeq(entries, KeepDir)
               f == [Top EXCEPT !.files = files, !.dirs = dirs,
                                !.file_info_list = BuildFileInfoList(files)]
           IN  /\ stack' = SetTop(AfterList(f))
               /\ fs' = fs @@ (Top.relative_path :> [ok |-> TRUE, entries |-> listing])
               /\ budget' = budget - Cardinality(listing)
               /\ log' = Append(log, Event("list", Top.relative_path, <<>>, "ok"))
    /\ UNCHANGED <<included_files, phase, repo_name, xml_content>>

\* ListDirFails with the exception left uncaught in the call: every active
\* call is abandoned and main goes on with the list as it is.
ListDirAborts ==
    /\ Walking
    /\ Top.pc = "list"
    /\ stack' = <<>>
    /\ phase' = "returned"
    /\ fs' = fs @@ (Top.relative_path :> [ok |-> FALSE, entries |-> {}])
    /\ log' = Append(log, Event("list", Top.relative_path, <<>>, "error"))
    /\ UNCHANGED <<included_files, budget, repo_name, xml_content>>

\* Lines 88-90: iterdir() raises; the call returns included_files as it is.
ListDirFails ==
    /\ Walking
    /\ Top.pc = "list"
    /\ stack' = SetTop([Top EXCEPT !.pc = "return"])
    /\ fs' = fs @@ (Top.relative_path :> [ok |-> FALSE, entries |-> {}])
    /\ log' = Append(log, Event("list", Top.relative_path, <<>>, "error"))
    /\ UNCHANGED <<included_files, budget, phase, repo_name, xml_content>>

\* Lines 137-153: the level-wide question about the files.
FileChoice ==
    /\ Walking
    /\ Top.pc = "file_choice"
    /\ \E file_choice \in {"y", "n", "o"} :
        LET added == IF file_choice = "y"
                     THEN IncludeAll(Top.relative_path, Top.file_info_list)
                     ELSE <<>>
            next == IF file_choice = "o"
                    THEN LoopOrElse([Top EXCEPT !.pc = "file_one", !.i = 1],
                                    Len(Top.file_info_list), AfterFiles(Top))
                    ELSE AfterFiles(Top)
        IN  /\ included_files' = included_files \o added
            /\ stack' = SetTop(next)
            /\ log' = Append(log, Event("files?", Top.relative_path, <<>>, file_choice))
                      \o [k \in 1..Len(added) |->
                            Event("append", Top.relative_path, added[k].path, "")]
    /\ UNCHANGED <<fs, budget, phase, repo_name, xml_content>>

\* Lines 154-170: one iteration of the one-by-one loop over file_info_list.
FileOne ==
    /\ Walking
    /\ Top.pc = "file_one"
    /\ \E sub_choice \in {"y", "n"} :
        LET info == Top.file_info_list[Top.i]
            added == IF sub_choice = "y" /\ ~SkipEmpty(info)
                     THEN <<IncludedRecord(Top.relative_path, info)>>
                     ELSE <<>>
            f == [Top EXCEPT !.i = @ + 1]
        IN  /\ included_files' = included_files \o added
            /\ stack' = SetTop(LoopOrElse(f, Len(Top.file_info_list), AfterFiles(Top)))
            /\ log' = Append(log, Event("file?", Top.relative_path, info.name, sub_choice))
                      \o [k \in 1..Len(added) |->
                            Event("append", Top.relative_path, added[k].path, "")]
    /\ UNCHANGED <<fs, budget, phase, repo_name, xml_content>>

\* Lines 179-182 and 186: the level-wide question about the subdirectories.
DirChoice ==
    /\ Walking
    /\ Top.pc = "dir_choice"
    /\ \E dir_choice \in {"y", "n", "o"} :
        /\ stack' = SetTop(CASE dir_choice = "y" -> [Top EXCEPT !.pc = "dir_all", !.i = 1]
                             [] dir_choice = "o" -> [Top EXCEPT !.pc = "dir_one", !.i = 1]
                             [] OTHER -> [Top EXCEPT !.pc = "return"])
        /\ log' = Append(log, Event("dirs?", Top.relative_path, <<>>, dir_choice))
    /\ UNCHANGED <<included_files, fs, budget, phase, repo_name, xml_content>>

\* The caller's frame while a call for dirs[i] runs: it resumes at i + 1.
Resume(f) == LoopOrElse([f EXCEPT !.i = @ + 1], Len(f.dirs), [f EXCEPT !.pc = "return"])

\* Lines 183-185: the call for the next subdirectory under "y".
DirAllCall ==
    /\ Walking
    /\ Top.pc = "dir_all"
    /\ stack' = Append(SetTop(Resume(Top)),
                       Frame(new_rel_path(Top.relative_path, Top.dirs[Top.i].name)))
    /\ UNCHANGED <<included_files, fs, budget, log, phase, repo_name, xml_content>>

\* DirOne that recurses whatever the answer is.
DirOneAlwaysRecurses ==
    /\ Walking
    /\ Top.pc = "dir_one"
    /\ \E sub_choice \in {"y", "n"} :
        /\ stack' = Append(SetTop(Resume(Top)),
                           Frame(new_rel_path(Top.relative_path, Top.dirs[Top.i].name)))
        /\ log' = Append(log, Event("dir?", Top.relative_path, Top.dirs[Top.i].name, sub_choice))
    /\ UNCHANGED <<included_files, fs, budget, phase, repo_name, xml_content>>

\* Lines 187-191: one iteration of the one-by-one loop over dirs.
DirOne ==
    /\ Walking
    /\ Top.pc = "dir_one"
    /\ \E sub_choice \in {"y", "n"} :
        /\ stack' = IF sub_choice = "y"
                    THEN Append(SetTop(Resume(Top)),
                                Frame(new_rel_path(Top.relative_path, Top.dirs[Top.i].name)))
                    ELSE SetTop(Resume(Top))
        /\ log' = Append(log, Event("dir?", Top.relative_path, Top.dirs[Top.i].name, sub_choice))
    /\ UNCHANGED <<included_files, fs, budget, phase, repo_name, xml_content>>

\* Lines 90 and 194: the call returns; the outermost call returns to main.
Return ==
    /\ Walking
    /\ Top.pc = "return"
    /\ stack' = SubSeq(stack, 1, Len(stack) - 1)
    /\ phase' = IF Len(stack) = 1 THEN "returned" ELSE phase
    /\ UNCHANGED <<included_files, fs, budget, log, repo_name, xml_content>>

(* --------------------------- generate_xml ----------------------------- *)

\* escape with "&" replaced last: the entities it has just written are escaped again.
escapeAmpLast(data) ==
    replace(replace(replace(data, <<">">>, <<"&", "g", "t", ";">>),
                    <<"<">>, <<"&", "l", "t", ";">>),
            <<"&">>, <<"&", "a", "m", "p", ";">>)

\* xml.sax.saxutils.escape with no extra entities: "&" first, then ">", "<".
escape(data) ==
    replace(replace(replace(data, <<"&">>, <<"&", "a", "m", "p", ";">>),
                    <<">">>, <<"&", "g", "t", ";">>),
            <<"<">>, <<"&", "l", "t", ";">>)

\* Line 212: the opening tag.
RepoLine(name) ==
    <<"<", "r", "e", "p", "o", " ", "n", "a", "m", "e", "=", "\"">>
    \o escape(name) \o <<"\"", ">">>

\* Line 217: one line of the index.
IndexLine(file_info) == <<" ", " ", " ", " ", "/">> \o file_info.path

\* Line 224: the opening tag of a file block.
FileTagLine(file_info) ==
    <<" ", " ", "<", "f", "i", "l", "e", " ", "p", "a", "t", "h", "=", "\"">>
    \o escape(file_info.path) \o <<"\"", ">">>

\* Line 225: the body of a file block.
FileBodyLine(file_info) == <<" ", " ", " ", " ">> \o escape(file_info.content)

\* Lines 221-226: the three lines of every file block, in order.
RECURSIVE FileBlocks(_)
FileBlocks(files) ==
    IF files = <<>> THEN <<>>
    ELSE << FileTagLine(Head(files)), FileBodyLine(Head(files)),
            <<" ", " ", "<", "/", "f", "i", "l", "e", ">", "\n">> >>
         \o FileBlocks(Tail(files))

\* Lines 211-227: xml_lines.
xml_lines(files, name) ==
    << RepoLine(name),
       <<" ", " ", "<", "d", "i", "r", "e", "c", "t", "o", "r", "y", " ",
         "s", "t", "r", "u", "c", "t", "u", "r", "e", ">">> >>
    \o [k \in 1..Len(files) |-> IndexLine(files[k])]
    \o << <<" ", " ", "<", "/", "d", "i", "r", "e", "c", "t", "o", "r", "y", ">", "\n">> >>
    \o FileBlocks(files)
    \o << <<"<", "/", "r", "e", "p", "o", ">">> >>

\* Line 229: the returned text.
generate_xml(files, name) == join(<<"\n">>, xml_lines(files, name))

\* The names the working directory may have.
RepoNames ==
    { <<"r">>, <<"r", "\"", "<", "&", ">">> }

\* Lines 259 and 205-229: main hands the list to generate_xml, which reads
\* the name of the working directory.
Generate ==
    /\ phase = "returned"
    /\ \E name \in RepoNames :
        /\ repo_name' = name
        /\ xml_content' = generate_xml(included_files, name)
    /\ phase' = "done"
    /\ UNCHANGED <<stack, included_files, fs, budget, log>>

Next ==
    \/ ListDir
    \/ ListDirFails
    \/ FileChoice
    \/ FileOne
    \/ DirChoice
    \/ DirAllCall
    \/ DirOne
    \/ Return
    \/ Generate

Spec == Init /\ [][Next]_vars

(* ------------------- generate_xml on given lists ---------------------- *)

FileRecord(path, content) ==
    [path |-> path, content |-> content, char_count |-> Len(content)]

\* Paths and contents of the records handed to generate_xml directly.
XmlPaths == { <<"a">>, <<"d", "/", "a", "&", "b">>, <<"q", "\"", "<", ">">> }

XmlContents == { <<"x">>, <<"<", "&", ">">>, <<"\"", "'">> }

XmlFileLists ==
    UNION { [1..n -> {FileRecord(pa, co) : pa \in XmlPaths, co \in XmlContents}] :
            n \in 0..MaxXmlFiles }

\* main has a list in hand and is about to call generate_xml.
InitXml ==
    /\ stack = <<>>
    /\ included_files \in XmlFileLists
    /\ fs = NoFs
    /\ budget = 0
    /\ log = <<>>
    /\ phase = "returned"
    /\ repo_name = <<>>
    /\ xml_content = <<>>

NextXml == Generate

SpecXml == InitXml /\ [][NextXml]_vars

\* Pieces a content string is made of: the escaped characters, plain
\* characters, and text that already looks like an entity.
Chunks ==
    { <<"&">>, <<"<">>, <<">">>, <<"a">>, <<";">>, <<"l", "t", ";">>,
      <<"&", "l", "t", ";">>, <<"&", "a", "m", "p", ";">> }

RECURSIVE Concat(_)
Concat(ss) == IF ss = <<>> THEN <<>> ELSE Head(ss) \o Concat(Tail(ss))

Contents == { Concat(cs) : cs \in UNION { [1..n -> Chunks] : n \in 0..MaxChunks } }

\* main has one file in hand, of any content, and is about to call generate_xml.
InitEscape ==
    /\ stack = <<>>
    /\ \E co \in Contents, pa \in {<<"a">>, <<"d", "/", "a", "&", "b">>} :
          included_files = <<FileRecord(pa, co)>>
    /\ fs = NoFs
    /\ budget = 0
    /\ log = <<>>
    /\ phase = "returned"
    /\ repo_name = <<>>
    /\ xml_content = <<>>

SpecEscape == InitEscape /\ [][NextXml]_vars

(* ------------------------------ claims -------------------------------- *)

\* str.split(c) for a one-character separator.
RECURSIVE Split(_, _)
Split(s, c) ==
    LET hits == {i \in 1..Len(s) : s[i] = c}
    IN  IF hits = {} THEN <<s>>
        ELSE LET i == CHOOSE h \in hits : \A o \in hits : h <= o
             IN  <<SubSeq(s, 1, i - 1)>> \o Split(SubSeq(s, i + 1, Len(s)), c)

Drop(s, n) == SubSeq(s, n + 1, Len(s))

\* xml.sax.saxutils.unescape: "&lt;" and "&gt;" first, "&amp;" last.
unescape(data) ==
    replace(replace(replace(data, <<"&", "l", "t", ";">>, <<"<">>),
                    <<"&", "g", "t", ";">>, <<">">>),
            <<"&", "a", "m", "p", ";">>, <<"&">>)

\* No raw "<" or ">", and every "&" opens one of the five entities.
Entities ==
    { <<"&", "a", "m", "p", ";">>, <<"&", "l", "t", ";">>, <<"&", "g", "t", ";">>,
      <<"&", "q", "u", "o", "t", ";">>, <<"&", "a", "p", "o", "s", ";">> }

MarkupEscaped(t) ==
    \A i \in 1..Len(t) :
        /\ t[i] \notin {"<", ">"}
        /\ t[i] = "&" => \E en \in Entities : startswith(Drop(t, i - 1), en)

AttributeEscaped(t) == MarkupEscaped(t) /\ \A i \in 1..Len(t) : t[i] # "\""

\* The lines of the returned text.  With n files: the opening tag, the index
\* header, n index lines, the index footer and a blank line, then four lines
\* per file (tag, body, footer, blank), then the closing tag.
XmlTextLines == Split(xml_content, "\n")

NFiles == Len(included_files)

\* The value between the fixed head of a line and its fixed tail.
Between(line, headLen, tailLen) == SubSeq(line, headLen + 1, Len(line) - tailLen)

RepoNameEmitted == Between(XmlTextLines[1], Len(RepoLine(<<>>)) - 2, 2)

IndexPathEmitted(k) == Drop(XmlTextLines[2 + k], Len(IndexLine(FileRecord(<<>>, <<>>))))

FilePathEmitted(k) ==
    Between(XmlTextLines[NFiles + 4 * k + 1], Len(FileTagLine(FileRecord(<<>>, <<>>))) - 2, 2)

FileBodyEmitted(k) ==
    Drop(XmlTextLines[NFiles + 4 * k + 2], Len(FileBodyLine(FileRecord(<<>>, <<>>))))

\* C4: in the text generate_xml returns, "&", "<" and ">" from the repository
\* name, from every path and from every content are escaped wherever the value
\* is emitted (name attribute, index line, path attribute, file body), and a
\* double quote from the name or a path is escaped inside its attribute.
C4_EveryValueEscaped ==
    phase = "done" =>
        /\ AttributeEscaped(RepoNameEmitted)
        /\ \A k \in 1..NFiles :
            /\ MarkupEscaped(IndexPathEmitted(k))
            /\ AttributeEscaped(FilePathEmitted(k))
            /\ MarkupEscaped(FileBodyEmitted(k))

\* C9: reversing the escape on the file body emitted by generate_xml gives
\* back the content, also when the content already holds entity-like text.
C9_EscapeRoundTrip ==
    phase = "done" => unescape(FileBodyEmitted(1)) = included_files[1].content

C9_Witness ==
    /\ phase = "done"
    /\ included_files[1].content = <<"&", "l", "t", ";", "<", "&", "a", "m", "p", ";">>
    /\ FileBodyEmitted(1) # included_files[1].content

(* --------------------------- walk claims ------------------------------ *)

IsPrefix(q, p) == Len(q) <= Len(p) /\ SubSeq(p, 1, Len(q)) = q

Parent(q) == SubSeq(q, 1, Len(q) - 1)

LogIdx == 1..Len(log)

\* The entries of a directory that was listed successfully.
Listing(p) == IF p \in DOMAIN fs /\ fs[p].ok THEN fs[p].entries ELSE {}

Answered(ev, dir, name, ans) == \E k \in LogIdx : log[k] = Event(ev, dir, name, ans)

IncludedPaths == {included_files[i].path : i \in 1..Len(included_files)}

\* The ignore rules as the specification states them.
DirNameIgnored(name) == startswith(name, <<".">>) \/ name \in IGNORE_DIRS

FileNameIgnored(name) ==
    \/ startswith(name, <<".">>)
    \/ name \in IGNORE_FILES_NAMES
    \/ \E suf \in IGNORE_FILES_SUFFIX : endswith(name, suf)

IgnoredByRule(e) ==
    \/ e.type = "dir" /\ DirNameIgnored(e.name)
    \/ e.type = "file" /\ FileNameIgnored(e.name)
    \/ startswith(e.name, <<".">>)

\* Read as text: not flagged as binary, decoded, no read error.
ReadSuccessfully(f) ==
    /\ f.kind = "text"
    /\ ~\E ext \in BINARY_FILE_EXTENSIONS : endswith(lower(f.name), ext)

\* The two classifications, tabulated over the entries a directory may hold.
IgnoredEntries == {e \in Catalogue : IgnoredByRule(e)}

ReadableEntries == {e \in Catalogue : ReadSuccessfully(e)}

CandidateFiles(p) == {f \in Listing(p) : f.type = "file" /\ f \notin IgnoredEntries}

CandidateDirs(p) == {f \in Listing(p) : f.type = "dir" /\ f \notin IgnoredEntries}

FileSelected(p, name) ==
    \/ Answered("files?", p, <<>>, "y")
    \/ Answered("files?", p, <<>>, "o") /\ Answered("file?", p, name, "y")

DirSelected(p, name) ==
    \/ Answered("dirs?", p, <<>>, "y")
    \/ Answered("dirs?", p, <<>>, "o") /\ Answered("dir?", p, name, "y")

AncestorsSelected(p) == \A n \in 1..Len(p) : DirSelected(SubSeq(p, 1, n - 1), p[n])

FilesOfTree == UNION { {<<p, f>> : f \in Listing(p)} : p \in DOMAIN fs }

ExpectedPaths ==
    { join(<<"/">>, Append(pf[1], pf[2].name)) :
        pf \in { x \in FilesOfTree :
                    /\ x[2].type = "file"
                    /\ x[2] \notin IgnoredEntries
                    /\ x[2] \in ReadableEntries
                    /\ Len(x[2].content) > 0
                    /\ FileSelected(x[1], x[2].name)
                    /\ AncestorsSelected(x[1]) } }

\* C1: a file is in the list process_directory returns exactly when it is not
\* ignored, was read as non-binary text, is not empty, was selected at its
\* level (ALL, or ONE_BY_ONE with "y") and every directory on the way to it
\* was selected; its path is the relative path joined with "/".
C1_ResultCharacterised == phase # "walk" => IncludedPaths = ExpectedPaths

C1_Witness ==
    /\ phase = "done"
    /\ IncludedPaths = {<<"d", "/", "a">>}
    /\ Answered("file?", <<>>, <<"a">>, "n")

\* C2: an entry matched by an ignore rule is never a candidate, never the
\* subject of a question (per entry or level-wide), never recursed into and
\* never a path or path component of the result.
C2_IgnoredNeverSeen ==
    /\ \A n \in 1..Len(stack) :
        /\ \A k \in 1..Len(stack[n].files) : stack[n].files[k] \notin IgnoredEntries
        /\ \A k \in 1..Len(stack[n].dirs) : stack[n].dirs[k] \notin IgnoredEntries
    /\ \A k \in LogIdx :
        LET e == log[k]
        IN  /\ e.ev = "file?" => \E f \in CandidateFiles(e.dir) : f.name = e.name
            /\ e.ev = "dir?" => \E f \in CandidateDirs(e.dir) : f.name = e.name
            /\ e.ev = "files?" => CandidateFiles(e.dir) # {}
            /\ e.ev = "dirs?" => CandidateDirs(e.dir) # {}
    /\ \A q \in DOMAIN fs :
        q # <<>> => \E f \in CandidateDirs(Parent(q)) : f.name = q[Len(q)]
    /\ \A pa \in IncludedPaths :
        LET comps == Split(pa, "/")
        IN  /\ \A k \in 1..(Len(comps) - 1) : ~DirNameIgnored(comps[k])
            /\ ~FileNameIgnored(comps[Len(comps)])

C2_Witness ==
    /\ phase = "done"
    /\ Len(log) = 1
    /\ \E f \in Listing(<<>>) : f.type = "dir" /\ f.name \in IGNORE_DIRS
    /\ \E f \in Listing(<<>>) : f.type = "file" /\ f.name \in IGNORE_FILES_NAMES
    /\ \E f \in Listing(<<>>) : f.type = "file" /\ endswith(f.name, <<".", "p", "y", "c">>)

\* C3: every record of the included-files list has char_count > 0, under ALL
\* and under a "y" for the file in ONE_BY_ONE.
C3_NoEmptyRecord ==
    \A i \in 1..Len(included_files) :
        included_files[i].char_count > 0 /\ Len(included_files[i].content) > 0

C3_Witness ==
    /\ Answered("files?", <<>>, <<>>, "y")
    /\ \E f \in Listing(<<>>) : f.name = <<"b">>
    /\ Answered("file?", << <<"d">> >>, <<"b">>, "y")

FileLevelEvent(e) == e.ev \in {"files?", "file?", "append"}

AppendEvents == SelectSeq(log, LAMBDA e : e.ev = "append")

Failed == {q \in DOMAIN fs : ~fs[q].ok}

LaterSiblings(q) ==
    {f.name : f \in {g \in CandidateDirs(Parent(q)) : StrLess(q[Len(q)], g.name)}}

NextSibling(q) ==
    CHOOSE n \in LaterSiblings(q) : \A o \in LaterSiblings(q) \ {n} : StrLess(n, o)

\* C6: a directory that cannot be listed causes no question and adds no
\* record; the caller goes on with the next sibling; when it is the root the
\* result is empty and the document is the opening tag, an empty index and
\* the closing tag.
C6_UnreadableDirectorySkipped ==
    /\ \A q \in Failed : \A k \in LogIdx :
        /\ IsPrefix(q, log[k].dir) => log[k] = Event("list", q, <<>>, "error")
        /\ (log[k] = Event("list", q, <<>>, "error") /\ q # <<>> /\ LaterSiblings(q) # {}) =>
              /\ phase # "walk" => k < Len(log)
              /\ k < Len(log) =>
                    IF Answered("dirs?", Parent(q), <<>>, "y")
                    THEN log[k + 1].ev = "list"
                         /\ log[k + 1].dir = Append(Parent(q), NextSibling(q))
                    ELSE log[k + 1].ev = "dir?"
                         /\ log[k + 1].dir = Parent(q)
                         /\ log[k + 1].name = NextSibling(q)
    /\ Len(AppendEvents) = Len(included_files)
    /\ (<<>> \in Failed /\ phase # "walk") => included_files = <<>>
    /\ (<<>> \in Failed /\ phase = "done") =>
          /\ Len(XmlTextLines) = 5
          /\ startswith(XmlTextLines[1],
                        <<"<", "r", "e", "p", "o", " ", "n", "a", "m", "e", "=", "\"">>)
          /\ endswith(XmlTextLines[1], <<"\"", ">">>)
          /\ XmlTextLines[2] = <<" ", " ", "<", "d", "i", "r", "e", "c", "t", "o", "r", "y",
                                 " ", "s", "t", "r", "u", "c", "t", "u", "r", "e", ">">>
          /\ XmlTextLines[3] = <<" ", " ", "<", "/", "d", "i", "r", "e", "c", "t", "o", "r", "y", ">">>
          /\ XmlTextLines[4] = <<>>
          /\ XmlTextLines[5] = <<"<", "/", "r", "e", "p", "o", ">">>

C6_Witness ==
    /\ phase = "done"
    /\ << <<"d">> >> \in Failed
    /\ << <<"e">> >> \in DOMAIN fs
    /\ IncludedPaths = {<<"a">>}

\* C7: no two records of the included-files list have the same path.
C7_PathsUnique ==
    \A i, j \in 1..Len(included_files) :
        i # j => included_files[i].path # included_files[j].path

C7_Witness ==
    /\ Len(included_files) = 2
    /\ \E k1, k2 \in 1..Len(AppendEvents) : AppendEvents[k1].dir # AppendEvents[k2].dir
    /\ \A i \in 1..2 : included_files[i].content = <<"x", "<">>

FileQuestions(p) == SelectSeq(log, LAMBDA e : e.ev = "file?" /\ e.dir = p)

ReadCandidates(p) == {f.name : f \in CandidateFiles(p) \cap ReadableEntries}

SettlingFiles(p) ==
    \E n \in 1..Len(stack) :
        stack[n].relative_path = p /\ stack[n].pc \in {"list", "file_choice", "file_one"}

\* C8: under ONE_BY_ONE for the files of a level, each candidate that was read
\* gets exactly one question, in sorted-name order; a file that was skipped
\* (binary, undecodable, unreadable) gets none and is never included.
C8_OneQuestionPerReadFile ==
    \A p \in DOMAIN fs :
        LET asked == FileQuestions(p)
            names == {asked[i].name : i \in 1..Len(asked)}
            read == ReadCandidates(p)
        IN  /\ \A i \in 1..(Len(asked) - 1) : StrLess(asked[i].name, asked[i + 1].name)
            /\ names \subseteq read
            /\ asked # <<>> => Answered("files?", p, <<>>, "o")
            /\ (Answered("files?", p, <<>>, "o") /\ ~SettlingFiles(p)) => names = read
            /\ \A f \in Listing(p) :
                  (f.type = "file" /\ f \notin ReadableEntries)
                      => \A i \in 1..Len(included_files) :
                            included_files[i].path # join(<<"/">>, Append(p, f.name))

C8_Witness ==
    /\ phase = "done"
    /\ Len(FileQuestions(<<>>)) = 2
    /\ \E f \in CandidateFiles(<<>>) : f \notin ReadableEntries

\* C10: under ONE_BY_ONE for the subdirectories of a level, a "y" starts the
\* walk of that subdirectory at once and its whole subtree is settled before
\* the question for the next sibling; after an "n" nothing below is asked.
C10_DirQuestionsInterleaved ==
    \A k \in LogIdx :
        log[k].ev = "dir?" =>
            LET p == log[k].dir
                c == Append(p, log[k].name)
            IN  /\ Answered("dirs?", p, <<>>, "o")
                /\ (log[k].ans = "y" /\ k < Len(log)) =>
                      log[k + 1].ev = "list" /\ log[k + 1].dir = c
                /\ (log[k].ans = "y" /\ k = Len(log)) =>
                      Top.relative_path = c /\ Top.pc = "list"
                /\ log[k].ans = "n" =>
                      c \notin DOMAIN fs /\ \A j \in LogIdx : ~IsPrefix(c, log[j].dir)
                /\ \A j \in LogIdx :
                      IsPrefix(c, log[j].dir) =>
                          /\ k < j
                          /\ \A k2 \in LogIdx :
                                (k < k2 /\ log[k2].ev = "dir?" /\ log[k2].dir = p) => j < k2

C10_Witness ==
    /\ phase = "done"
    /\ \E k \in LogIdx :
        /\ k + 3 <= Len(log)
        /\ log[k] = Event("dir?", <<>>, <<"d">>, "y")
        /\ log[k + 2].ev = "files?" /\ log[k + 2].dir = << <<"d">> >>
        /\ log[Len(log)] = Event("dir?", <<>>, <<"e">>, "n")

=============================================================================
